---- MODULE Spec2Model ----
(***************************************************************************)
(* Timeline core of drone-night-clip: scene normalisation, beat synthesis, *)
(* shot selection, the frame clock and the per-frame tempo state, with the *)
(* player around it: scene loading, presets, start-up, keys, recording,    *)
(* audio, the camera path and the post-processing chain.                   *)
(*                                                                         *)
(* Time is counted in units of 1/SCALE second (0.1 ms), the resolution of  *)
(* the toFixed(4) rounding the code applies to every synthesized beat.     *)
(* Signals in [0,1] (pulse, accent, energy ...) are fixed-point numbers in *)
(* thousandths (MILLI).                                                    *)
(***************************************************************************)
EXTENDS Integers, Sequences, FiniteSets, TLC

VARIABLES
  raw,             \* the raw scene value handed to normalizeSceneData
  normalized,      \* the outcome of the last normalizeSceneData call
  sceneData,       \* runtime.sceneData (NoScene: null)
  currentShot,     \* runtime.currentShot, as an index into shots (0: null)
  currentTime,     \* runtime.currentTime, in units
  isPlaying,       \* runtime.isPlaying
  isRecording,     \* runtime.isRecording
  playbackSpeed,   \* runtime.playbackSpeed, in quarters (4 is 1.0x)
  hasAudio,        \* runtime.hasAudio (analyser and audioData are set with it)
  lastAudioEnergy, \* runtime.lastAudioEnergy, in thousandths
  tempoState,      \* the tempoState singleton
  frames,          \* number of frames rendered so far
  loopPc,          \* position of a beat loop: "idle", "loop" or "done"
  loopT,           \* numerator of the loop variable t = loopT/loopBpm units
  loopBpm,         \* the bpm the running loop divides by
  loopIter,        \* iterations the running loop has executed
  loopBeats,       \* the beats array the running loop pushes to
  phase,           \* "first" run or "replay" after a rewind to 0
  trace,           \* the frames of the first run: time and beat bookkeeping
  replayPos,       \* how many frames of the trace have been replayed
  audioElement,    \* runtime.audioElement is attached
  audioTime,       \* audioElement.currentTime, in units
  audioPlaying,    \* the audio element is playing
  composerPasses,  \* the passes of runtime.composer ({}: no composer)
  bloomPass,       \* runtime.bloomPass is set
  vignettePass,    \* runtime.vignettePass is set
  exposure,        \* renderer.toneMappingExposure, in thousandths
  written,         \* what the last frame's updateExposureAndPost wrote
  loadPc,          \* position of loadSceneDataAsync
  loadTimer,       \* the abort timer of loadSceneDataAsync is armed
  loadElapsed,     \* seconds since loadSceneDataAsync was called
  loadNet,         \* what the network does with the request
  loadInline,      \* the inline scene payload of the page
  loadResult,      \* how the promise of loadSceneDataAsync settled
  uiSetups,        \* how many times setupUI and setupKeyboard have run
  splashHidden,    \* the splash carries the class "hidden"
  loopStarted,     \* startRenderLoop has run
  rafPending,      \* a render callback is scheduled
  recFrames,       \* frames since the recording started (-1: not tracked)
  cameraCurve,     \* runtime.cameraCurve: the shot whose points built it (0: null)
  cameraPose,      \* the camera pose: the curve, shot and time it was sampled with
  presetLoads      \* the runs of the preset handler, in the order of selection

sceneVars == <<raw, normalized, sceneData, currentShot>>

clockVars == <<currentTime, isPlaying, isRecording, playbackSpeed>>

audioVars == <<hasAudio, lastAudioEnergy>>

loopVars == <<loopPc, loopT, loopBpm, loopIter, loopBeats>>

replayVars == <<phase, trace, replayPos>>

mediaVars == <<audioElement, audioTime, audioPlaying>>

fxVars == <<composerPasses, bloomPass, vignettePass, exposure, written>>

loadVars == <<loadPc, loadTimer, loadElapsed, loadNet, loadInline, loadResult,
              presetLoads>>

camVars == <<cameraCurve, cameraPose>>

appVars == <<uiSetups, splashHidden, loopStarted>>

\* everything outside the scene, the clock, the analyser and the tempo state
otherVars == <<mediaVars, fxVars, camVars, loadVars, appVars, rafPending, recFrames>>

vars == <<raw, normalized, sceneData, currentShot, currentTime, isPlaying,
          isRecording, playbackSpeed, hasAudio, lastAudioEnergy, tempoState,
          frames, loopPc, loopT, loopBpm, loopIter, loopBeats, phase, trace,
          replayPos, audioElement, audioTime, audioPlaying, composerPasses,
          bloomPass, vignettePass, exposure, written, loadPc, loadTimer,
          loadElapsed, loadNet, loadInline, loadResult, uiSetups, splashHidden,
          loopStarted, rafPending, recFrames,
          cameraCurve, cameraPose, presetLoads>>

\* ------------------------------------------------------------------------
\* Program constants
\* ------------------------------------------------------------------------
TARGET_DURATION == 30

DEFAULT_BPM == 120

RECORDING_FPS == 25

\* units per second: toFixed(4) keeps four decimals
SCALE == 10000

\* fixed-point one for the signals in [0,1]
MILLI == 1000

\* the scene duration in units
Dur == TARGET_DURATION * SCALE

\* 0.01 s, the minimum shot length of normalizeSceneData
SHOT_EPSILON == SCALE \div 100

\* 0.0001 s, the tolerance of the beat loops and of the rewind test
TOLERANCE == SCALE \div 10000

\* ------------------------------------------------------------------------
\* Bounds of the model
\* ------------------------------------------------------------------------
MaxShots == 2

MaxRawBeats == 2

\* iterations a beat loop is followed for
MaxLoopIter == 130

\* frames of a tempo run
MaxFrames == 4

\* frames of an audio run
MaxAudioFrames == 12

\* frames of a first run that is replayed
MaxReplayFrames == 4

\* frames of a run with the keyboard
MaxPlayerFrames == 2

\* frames of a run on each effect chain
MaxFxFrames == 4

\* seconds a pending scene load is followed for
MaxLoadSeconds == 5

\* preset selections of a session, and the frames rendered in it
MaxSelections == 2

MaxPresetFrames == 3

\* frames of a recorded run: the 750 frames of 30 s at 25 fps, and the
\* frames after the end
MaxRecordFrames == 753

\* ------------------------------------------------------------------------
\* Arithmetic helpers
\* ------------------------------------------------------------------------
Min(a, b) == IF a <= b THEN a ELSE b

Max(a, b) == IF a >= b THEN a ELSE b

\* The value n/d (d > 0) rounded to the nearest unit, halves away from zero:
\* parseFloat(t.toFixed(4)) for t = n/d units.
RoundQ(n, d) ==
  IF n >= 0 THEN (2 * n + d) \div (2 * d)
  ELSE -((2 * (-n) + d) \div (2 * d))

\* ------------------------------------------------------------------------
\* createMinimalScene
\* ------------------------------------------------------------------------
\* shot.fx as updateExposureAndPost reads it: exposure (-1: not a number),
\* flash and accentFlash in thousandths, fade the declared window (<<>>:
\* none).  bloom and vignette are set by normalizeSceneData for every shot.
\* shot.path is "points" when path.points is an array of coordinate
\* triples, "none" when the shot has no usable path; normalizeSceneData
\* does not look at it.
NoFx == [exposure |-> -1, flash |-> 0, accentFlash |-> 0, fade |-> <<>>]

\* the fx of the emergency shot: exposure 0.95, flash 0.16, fade over the
\* last 0.6 s
MinimalFx ==
  [exposure |-> 950, flash |-> 160, accentFlash |-> 0,
   fade |-> <<Dur - (6 * SCALE) \div 10, Dur>>]

MinimalShots == << [time |-> <<0, Dur>>, fx |-> MinimalFx, path |-> "points"] >>

\* ------------------------------------------------------------------------
\* Beat synthesis.  The loop variable t of the two beat loops is the
\* rational tn/bpm units: it starts at `from` and grows by
\* beatDuration = 60/bpm s = (60*SCALE)/bpm units each iteration.
\* ------------------------------------------------------------------------
BeatStepNum == 60 * SCALE

\* t <= data.meta.duration + 0.0001, for t = tn/bpm
LoopCond(tn, bpm) ==
  IF bpm > 0 THEN tn <= (Dur + TOLERANCE) * bpm
  ELSE tn >= (Dur + TOLERANCE) * bpm

\* parseFloat(t.toFixed(4)) for t = tn/bpm
BeatOf(tn, bpm) ==
  IF bpm > 0 THEN RoundQ(tn, bpm) ELSE RoundQ(-tn, -bpm)

\* the number of iterations the loop runs from t = tn/bpm, for a positive
\* bpm: t, t + beatDuration, ... while t <= duration + 0.0001
LoopCount(tn, bpm) ==
  IF LoopCond(tn, bpm)
  THEN ((Dur + TOLERANCE) * bpm - tn) \div BeatStepNum + 1
  ELSE 0

\* the list after the loop has pushed its beats to acc, for a positive bpm
SynthBeats(tn, bpm, acc) ==
  acc \o [k \in 1..LoopCount(tn, bpm) |-> BeatOf(tn + (k - 1) * BeatStepNum, bpm)]

\* regenerateBeats: the list built from t = 0
RegenBeats(bpm) == SynthBeats(0, bpm, <<>>)

\* ------------------------------------------------------------------------
\* normalizeSceneData
\* ------------------------------------------------------------------------
\* shots.filter(...): a null entry makes `shot.time` throw
FilterThrows(shots) == \E i \in 1..Len(shots) : shots[i].tag = "null"

HasTimePair(shot) == shot.tag = "obj" /\ shot.timeIsArray /\ Len(shot.time) = 2

FilterShots(shots) == SelectSeq(shots, HasTimePair)

\* the sort key (a.time[0] || 0)
SortKey(shot) == shot.time[1]

\* Array.prototype.sort is stable: insert each shot after the last shot
\* whose key is <= its own
RECURSIVE InsertShot(_, _)
InsertShot(sorted, shot) ==
  IF sorted = <<>> THEN <<shot>>
  ELSE IF SortKey(sorted[Len(sorted)]) <= SortKey(shot)
       THEN Append(sorted, shot)
       ELSE Append(InsertShot(SubSeq(sorted, 1, Len(sorted) - 1), shot),
                   sorted[Len(sorted)])

RECURSIVE SortShots(_)
SortShots(shots) ==
  IF shots = <<>> THEN <<>>
  ELSE InsertShot(SortShots(SubSeq(shots, 1, Len(shots) - 1)), shots[Len(shots)])

\* x || fallback
OrElse(x, fallback) == IF x = 0 THEN fallback ELSE x

\* the clamp of lines 75-76
ClampStart(t0) == Max(0, Min(Dur, OrElse(t0, 0)))

ClampEnd(start, t1) == Max(start + SHOT_EPSILON, Min(Dur, OrElse(t1, Dur)))

ClampShot(shot) ==
  LET start == ClampStart(shot.time[1])
  IN  [time |-> <<start, ClampEnd(start, shot.time[2])>>, fx |-> shot.fx,
       path |-> shot.path]

ClampShots(shots) == [i \in 1..Len(shots) |-> ClampShot(shots[i])]

NormalizeShots(rawShots) ==
  IF ~rawShots.isArray THEN MinimalShots
  ELSE ClampShots(SortShots(FilterShots(rawShots.items)))

\* the beats branch for explicit beats: parse, filter and sort
InRangeBeat(b) == b.finite /\ b.v >= 0 /\ b.v <= Dur

\* Array.prototype.sort with the numeric comparator, which is stable: an
\* ascending list stays as it is; otherwise the item at index i goes to the
\* position after the smaller items and the equal items before it
SortNums(s) ==
  IF \A i \in 1..(Len(s) - 1) : s[i] <= s[i + 1] THEN s
  ELSE LET rank(i) == 1 + Cardinality({ j \in 1..Len(s) :
                                         s[j] < s[i] \/ (s[j] = s[i] /\ j < i) })
       IN  [k \in 1..Len(s) |-> s[CHOOSE i \in 1..Len(s) : rank(i) = k]]

FilterBeats(items) ==
  LET kept == SelectSeq(items, InRangeBeat)
  IN  SortNums([i \in 1..Len(kept) |-> kept[i].v])

ExtendBeats(items, bpm) ==
  LET kept     == FilterBeats(items)
      lastBeat == IF kept = <<>> THEN 0 ELSE kept[Len(kept)]
  IN  SynthBeats(lastBeat * bpm + BeatStepNum, bpm, kept)

NormalizeBeats(rawBeats, bpm) ==
  IF ~rawBeats.isArray \/ rawBeats.items = <<>>
  THEN RegenBeats(bpm)
  ELSE ExtendBeats(rawBeats.items, bpm)

NoScene == [status |-> "none", duration |-> 0, bpm |-> 0, shots |-> <<>>, beats |-> <<>>]

Failed(how) == [NoScene EXCEPT !.status = how]

\* createMinimalScene, as the raw value normalizeSceneData goes on with
\* when data is falsy
createMinimalScene ==
  [kind |-> "obj", meta |-> "obj", bpm |-> DEFAULT_BPM,
   shots |-> [isArray |-> TRUE,
              items |-> << [tag |-> "obj", timeIsArray |-> TRUE, time |-> <<0, Dur>>,
                             fx |-> MinimalFx, path |-> "points"] >>],
   beats |-> [isArray |-> TRUE, items |-> <<>>]]

\* The outcome of normalizeSceneData(raw): a Scene (status "ok"), a thrown
\* TypeError (status "throw"), or, with a negative bpm, a beat loop that
\* never ends (status "hang", see BeatLoopStep).  meta.bpm is a number here;
\* 0 stands for every falsy value.
normalizeSceneData(data) ==
  LET r == IF data.kind = "null" THEN createMinimalScene ELSE data
  IN  IF r.kind = "prim" THEN Failed("throw")
      ELSE IF r.meta = "prim" THEN Failed("throw")
      ELSE IF r.shots.isArray /\ FilterThrows(r.shots.items) THEN Failed("throw")
      ELSE
        LET bpm == OrElse(r.bpm, DEFAULT_BPM)
        IN  IF bpm < 0 THEN Failed("hang")
            ELSE [status |-> "ok", duration |-> Dur, bpm |-> bpm,
                  shots |-> NormalizeShots(r.shots),
                  beats |-> NormalizeBeats(r.beats, bpm)]

\* ------------------------------------------------------------------------
\* Shot selection of updateCameraPath: the index of the selected shot
\* ------------------------------------------------------------------------
Contains(shot, t) == t >= shot.time[1] /\ t < shot.time[2]

selectShot(shots, t) ==
  IF \E i \in 1..Len(shots) : Contains(shots[i], t)
  THEN CHOOSE i \in 1..Len(shots) :
         /\ Contains(shots[i], t)
         /\ \A j \in 1..(i - 1) : ~Contains(shots[j], t)
  ELSE Len(shots)

\* ------------------------------------------------------------------------
\* Raw inputs
\* ------------------------------------------------------------------------
\* raw time values: negative, zero, inside, just below the duration, the
\* duration, beyond it
TimeVals == {-SCALE, 0, 10 * SCALE, Dur, Dur + 10 * SCALE}

ShotEntries ==
  { [tag |-> "null", timeIsArray |-> FALSE, time |-> <<>>, fx |-> NoFx, path |-> "points"],
    [tag |-> "prim", timeIsArray |-> FALSE, time |-> <<>>, fx |-> NoFx, path |-> "points"],
    [tag |-> "obj",  timeIsArray |-> FALSE, time |-> <<>>, fx |-> NoFx, path |-> "points"],
    [tag |-> "obj",  timeIsArray |-> TRUE,  time |-> <<0>>, fx |-> NoFx, path |-> "points"] }
  \cup { [tag |-> "obj", timeIsArray |-> TRUE, time |-> <<a, b>>, fx |-> NoFx, path |-> "points"] :
           a \in TimeVals, b \in TimeVals }

SeqsUpTo(S, n) == UNION { [1..k -> S] : k \in 0..n }

NoArray == [isArray |-> FALSE, items |-> <<>>]

ArrayOf(items) == [isArray |-> TRUE, items |-> items]

RawShotsVals == {NoArray} \cup { ArrayOf(s) : s \in SeqsUpTo(ShotEntries, MaxShots) }

BeatEntries ==
  { [finite |-> FALSE, v |-> 0] }
  \cup { [finite |-> TRUE, v |-> x] :
           x \in {-SCALE, 5 * SCALE, 29 * SCALE + 5001, Dur + 69 * SCALE} }

RawBeatsVals == {NoArray} \cup { ArrayOf(s) : s \in SeqsUpTo(BeatEntries, MaxRawBeats) }

\* meta.bpm: 0 stands for every falsy value (absent, 0, null)
BpmVals == {0, 1, 90, 120, -60}

RawObj(meta, bpm, shots, beats) ==
  [kind |-> "obj", meta |-> meta, bpm |-> bpm, shots |-> shots, beats |-> beats]

RawInputs ==
  { [kind |-> k, meta |-> "absent", bpm |-> 0, shots |-> NoArray, beats |-> NoArray] :
      k \in {"null", "prim"} }
  \cup { RawObj("prim", 0, NoArray, NoArray) }
  \cup { RawObj("obj", 0, s, NoArray) : s \in RawShotsVals }
  \cup { RawObj(m, b, NoArray, bs) :
           m \in {"obj"}, b \in BpmVals, bs \in RawBeatsVals }


ProbeTimes == {0, 5 * SCALE, 10 * SCALE, 15 * SCALE, Dur - 1, Dur}

\* ------------------------------------------------------------------------
\* Fixed-point signal arithmetic
\* ------------------------------------------------------------------------
\* Math.max(lo, Math.min(hi, x))
Clamp(x, lo, hi) == Max(lo, Min(hi, x))

\* THREE.MathUtils.lerp(x, y, t) = (1 - t) * x + t * y, t in thousandths
Lerp(x, y, t) == ((MILLI - t) * x + t * y) \div MILLI

\* sin(pi * x) for x in [0,1], both in thousandths, evaluated as
\* 16 x (1 - x) / (5 - 4 x (1 - x)), within 0.002 of Math.sin
SinPi(x) ==
  LET a == x * (MILLI - x)
  IN  (2000 * a) \div (625000 - (a \div 2))

\* Math.pow(Math.sin(x * Math.PI), 2)
Sin2(x) == (SinPi(x) * SinPi(x)) \div MILLI

\* Math.sin(x * Math.PI * 2) for x in [0,1]
SinTwoPi(x) ==
  IF 2 * x <= MILLI THEN SinPi(2 * x) ELSE -SinPi(2 * x - MILLI)

\* (time / period) % 1, in thousandths
PhaseOf(time, period) == ((time % period) * MILLI) \div period

\* ------------------------------------------------------------------------
\* state.js: the tempoState singleton and resetTempoState
\* ------------------------------------------------------------------------
\* 60 / bpm seconds, in units
BeatDurationOf(bpm) == BeatStepNum \div bpm

resetTempoState(bpm) ==
  [bpm |-> bpm,
   beatDuration |-> BeatDurationOf(bpm),
   barDuration |-> BeatDurationOf(bpm) * 4,
   wave |-> 0, pulse |-> 0, barPulse |-> 0, accent |-> 0, beatPulse |-> 0,
   audioPulse |-> 0, energy |-> 0,
   beatIndex |-> 0, lastBeatTime |-> 0,
   nextBeatTime |-> BeatDurationOf(bpm),
   lastAudioPeak |-> 0]

InitialTempoState == resetTempoState(DEFAULT_BPM)

\* runtime.lastAudioEnergy: 0.2
InitialAudioEnergy == 200

\* ------------------------------------------------------------------------
\* sampleAudioEnergy
\* ------------------------------------------------------------------------
\* mean value of the bass bins of the analyser (0..255): silence and full
\* scale
AudioBassLevels == {0, 255}

AnalyserEnergy(bass) == Min(MILLI, (bass * 1400) \div 255)

SyntheticEnergy(ts, time) ==
  LET beatDuration == IF ts.beatDuration > 0 THEN ts.beatDuration
                      ELSE BeatDurationOf(DEFAULT_BPM)
      barDuration  == IF ts.barDuration > 0 THEN ts.barDuration
                      ELSE beatDuration * 4
      beatPulse    == Sin2(PhaseOf(time, beatDuration))
      barPulse     == Sin2(PhaseOf(time, barDuration))
  IN  180 + (beatPulse * 600) \div MILLI + (barPulse * 250) \div MILLI

sampleAudioEnergy(audio, ts, time, bass) ==
  IF audio THEN AnalyserEnergy(bass) ELSE SyntheticEnergy(ts, time)

\* ------------------------------------------------------------------------
\* updateTempoState
\* ------------------------------------------------------------------------
\* the while loop of lines 16-19: <<beatIndex, lastBeatTime>> afterwards.
\* The loop stops at the first index from beatIndex on that is the end of
\* the list or whose beat is still ahead of the time.
WalkStop(beats, time, beatIndex) ==
  LET stops == { i \in beatIndex..Max(beatIndex, Len(beats)) :
                   i >= Len(beats) \/ time < beats[i + 1] }
  IN  CHOOSE i \in stops : \A j \in stops : i <= j

WalkBeats(beats, time, beatIndex, lastBeatTime) ==
  LET stop == WalkStop(beats, time, beatIndex)
  IN  <<stop, IF stop > beatIndex THEN beats[stop] ELSE lastBeatTime>>

\* lines 9-13: the rewind test
RewindDetected(ts, time) == time + TOLERANCE < ts.lastBeatTime

\* lines 4-30: <<beatIndex, lastBeatTime, nextBeatTime>> afterwards
BeatBookkeeping(ts, beats, time) ==
  LET beatDuration == IF ts.beatDuration > 0 THEN ts.beatDuration
                      ELSE BeatDurationOf(DEFAULT_BPM)
      rewound == RewindDetected(ts, time)
      index0  == IF rewound THEN 0 ELSE ts.beatIndex
      last0   == IF rewound THEN 0 ELSE ts.lastBeatTime
      next0   == IF rewound THEN beatDuration ELSE ts.nextBeatTime
  IN  IF Len(beats) > 0
      THEN LET walked    == WalkBeats(beats, time, index0, last0)
               nextIndex == Min(walked[1], Len(beats) - 1)
               candidate == beats[nextIndex + 1]
           IN  <<walked[1], walked[2],
                 IF candidate > walked[2] THEN candidate
                 ELSE walked[2] + beatDuration>>
      ELSE IF time >= next0
           THEN LET steps == Max(1, RoundQ(time - next0, beatDuration) + 1)
                IN  <<index0, next0, next0 + beatDuration * steps>>
           ELSE <<index0, last0, next0>>

\* the sum without its Math.min(1, ...)
CombinedPulseUnclamped(beatPulse, audioPulse) ==
  (beatPulse * 600 + audioPulse * 700) \div MILLI

\* Math.min(1, beatPulse * 0.6 + audioPulse * 0.7)
CombinedPulse(beatPulse, audioPulse) ==
  Min(MILLI, (beatPulse * 600 + audioPulse * 700) \div MILLI)

\* Math.max(0, (lastAudioEnergy - 0.22) * 1.35)
AudioPulseTarget(energy) == Max(0, ((energy - 220) * 1350) \div MILLI)

\* Math.min(1, Math.max(beatAccent, audioAccent))
Accent(clamped, audioPulse) ==
  LET beatAccent  == Max(0, MILLI - clamped * 8)
      audioAccent == Max(0, ((audioPulse - 450) * 1600) \div MILLI)
  IN  Min(MILLI, Max(beatAccent, audioAccent))

\* lines 57-71: <<beatDuration, barDuration, lastAudioPeak>> afterwards
PeakDetection(ts, beats, time, audio, playing, energy) ==
  IF audio /\ playing /\ energy > 550 /\ energy - ts.energy > 80
  THEN LET interval == time - ts.lastAudioPeak
           detected == Clamp(interval, BeatStepNum \div 220, BeatStepNum \div 40)
       IN  IF Len(beats) = 0 /\ ts.lastAudioPeak > 0
              /\ interval > SCALE \div 4 /\ interval < (SCALE * 3) \div 2
           THEN <<Lerp(ts.beatDuration, detected, 120),
                  Lerp(ts.beatDuration, detected, 120) * 4, time>>
           ELSE <<ts.beatDuration, ts.barDuration, time>>
  ELSE <<ts.beatDuration, ts.barDuration, ts.lastAudioPeak>>

updateTempoState(ts, beats, time, audio, playing, energy) ==
  LET beatDuration == IF ts.beatDuration > 0 THEN ts.beatDuration
                      ELSE BeatDurationOf(DEFAULT_BPM)
      barDuration  == IF ts.barDuration > 0 THEN ts.barDuration
                      ELSE beatDuration * 4
      book         == BeatBookkeeping(ts, beats, time)
      span         == Max(beatDuration, book[3] - book[2])
      clamped      == Clamp(((time - book[2]) * MILLI) \div span, 0, MILLI)
      beatPulse    == Sin2(clamped)
      audioPulse   == Lerp(ts.audioPulse, AudioPulseTarget(energy), 250)
      peak         == PeakDetection(ts, beats, time, audio, playing, energy)
  IN  [bpm |-> ts.bpm,
       beatDuration |-> peak[1],
       barDuration |-> peak[2],
       wave |-> (SinTwoPi(clamped) * (600 + (audioPulse * 400) \div MILLI)) \div MILLI,
       pulse |-> CombinedPulse(beatPulse, audioPulse),
       barPulse |-> Sin2(PhaseOf(time, barDuration)),
       accent |-> Accent(clamped, audioPulse),
       beatPulse |-> beatPulse,
       audioPulse |-> audioPulse,
       energy |-> Lerp(ts.energy, energy, 300),
       beatIndex |-> book[1],
       lastBeatTime |-> book[2],
       nextBeatTime |-> book[3],
       lastAudioPeak |-> peak[3]]

\* ------------------------------------------------------------------------
\* The parts of the state a specification leaves alone
\* ------------------------------------------------------------------------
NullRaw ==
  [kind |-> "null", meta |-> "absent", bpm |-> 0, shots |-> NoArray, beats |-> NoArray]

SceneIdle ==
  /\ raw = NullRaw
  /\ normalized = NoScene
  /\ sceneData = NoScene
  /\ currentShot = 0

ClockIdle ==
  /\ currentTime = 0
  /\ isPlaying = FALSE
  /\ isRecording = FALSE
  /\ playbackSpeed = 4

AudioIdle ==
  /\ hasAudio = FALSE
  /\ lastAudioEnergy = InitialAudioEnergy

LoopIdle ==
  /\ loopPc = "idle"
  /\ loopT = 0
  /\ loopBpm = DEFAULT_BPM
  /\ loopIter = 0
  /\ loopBeats = <<>>

ReplayIdle ==
  /\ phase = "first"
  /\ trace = <<>>
  /\ replayPos = 0

\* no audio element
MediaIdle ==
  /\ audioElement = FALSE
  /\ audioTime = 0
  /\ audioPlaying = FALSE

\* setupRenderer, environment.js line 24: toneMappingExposure = 0.95
InitialExposure == 950

\* the effect chain after a setupPostProcessing that built every pass
FxFull ==
  /\ composerPasses = {"render", "bloom", "vignette"}
  /\ bloomPass = TRUE
  /\ vignettePass = TRUE
  /\ exposure = InitialExposure
  /\ written = {}

NoPayload == [kind |-> "none", raw |-> NullRaw]

LoadIdle ==
  /\ loadPc = "idle"
  /\ loadTimer = FALSE
  /\ loadElapsed = 0
  /\ loadNet = NoPayload
  /\ loadInline = NoPayload
  /\ loadResult = NoScene

\* the application after an init() that reached startRenderLoop and a click
\* on the start button
AppReady ==
  /\ uiSetups = 1
  /\ splashHidden = TRUE
  /\ loopStarted = TRUE
  /\ rafPending = TRUE
  /\ recFrames = -1

\* the camera before its first pose is sampled
NoPose == [curve |-> 0, shot |-> 0, time |-> 0]

\* no curve, no pose sampled, no preset selected
CameraIdle ==
  /\ cameraCurve = 0
  /\ cameraPose = NoPose
  /\ presetLoads = <<>>

RestIdle ==
  /\ MediaIdle
  /\ FxFull
  /\ CameraIdle
  /\ LoadIdle
  /\ AppReady

\* ------------------------------------------------------------------------
\* applySceneData and the shot selection of updateCameraPath
\* ------------------------------------------------------------------------
\* applySceneData(raw): an exception of normalizeSceneData leaves the
\* runtime as it was
ApplySceneData ==
  /\ normalized.status = "none"
  /\ normalized' = normalizeSceneData(raw)
  /\ IF normalized'.status = "ok"
     THEN /\ sceneData' = normalized'
          /\ tempoState' = resetTempoState(normalized'.bpm)
          /\ currentShot' = 0
          /\ cameraCurve' = 0
     ELSE UNCHANGED <<sceneData, tempoState, currentShot, cameraCurve>>
  /\ UNCHANGED <<raw, clockVars, audioVars, frames, loopVars, replayVars,
                 mediaVars, fxVars, cameraPose, loadVars, appVars, rafPending,
                 recFrames>>

\* updateCameraPath, lines 140-159: returns early without shots
CameraShot(scene, time, shot) ==
  IF scene.status # "ok" \/ Len(scene.shots) = 0 THEN shot
  ELSE selectShot(scene.shots, time)

UpdateCameraPath ==
  /\ sceneData.status = "ok"
  /\ Len(sceneData.shots) > 0
  /\ currentShot' = CameraShot(sceneData, currentTime, currentShot)
  /\ UNCHANGED <<raw, normalized, sceneData, clockVars, audioVars, tempoState,
                 frames, loopVars, replayVars, otherVars>>

InitScene ==
  /\ raw \in RawInputs
  /\ normalized = NoScene
  /\ sceneData = NoScene
  /\ currentShot = 0
  /\ currentTime \in ProbeTimes
  /\ isPlaying = FALSE
  /\ isRecording = FALSE
  /\ playbackSpeed = 4
  /\ AudioIdle
  /\ tempoState = InitialTempoState
  /\ frames = 0
  /\ LoopIdle
  /\ ReplayIdle
  /\ RestIdle

NextScene == ApplySceneData \/ UpdateCameraPath

SpecScene == InitScene /\ [][NextScene]_vars

\* ------------------------------------------------------------------------
\* The beat loops of regenerateBeats and normalizeSceneData, step by step
\* ------------------------------------------------------------------------
\* bpm values the BPM control lets through (finite and >= 40)
ControlBpmVals == {40, 90, 240}

\* data.meta.bpm || DEFAULT_BPM of a scene file, or the BPM control's value
LoopBpmVals == { OrElse(b, DEFAULT_BPM) : b \in BpmVals } \cup ControlBpmVals

\* last explicit beats the extension loop starts from
LastBeatVals == {0, 5 * SCALE, 29 * SCALE + 5001}

\* regenerateBeats, lines 49-52: t = 0
StartRegenerate(bpm) ==
  /\ loopPc = "idle"
  /\ loopPc' = "loop"
  /\ loopBpm' = bpm
  /\ loopT' = 0
  /\ loopIter' = 0
  /\ loopBeats' = <<>>

\* normalizeSceneData, lines 96-97: t = lastBeat + beatDuration
StartExtend(bpm, lastBeat) ==
  /\ loopPc = "idle"
  /\ loopPc' = "loop"
  /\ loopBpm' = bpm
  /\ loopT' = lastBeat * bpm + BeatStepNum
  /\ loopIter' = 0
  /\ loopBeats' = <<lastBeat>>

\* one iteration: push the rounded t, then t += beatDuration
BeatLoopStep ==
  /\ loopPc = "loop"
  /\ LoopCond(loopT, loopBpm)
  /\ loopIter < MaxLoopIter
  /\ loopBeats' = Append(loopBeats, BeatOf(loopT, loopBpm))
  /\ loopT' = loopT + BeatStepNum
  /\ loopIter' = loopIter + 1
  /\ UNCHANGED <<loopPc, loopBpm>>

\* the loop condition fails: the function returns
BeatLoopExit ==
  /\ loopPc = "loop"
  /\ ~LoopCond(loopT, loopBpm)
  /\ loopPc' = "done"
  /\ UNCHANGED <<loopT, loopBpm, loopIter, loopBeats>>

InitBeatLoop ==
  /\ SceneIdle
  /\ ClockIdle
  /\ AudioIdle
  /\ tempoState = InitialTempoState
  /\ frames = 0
  /\ LoopIdle
  /\ ReplayIdle
  /\ RestIdle

NextBeatLoop ==
  \/ /\ \E bpm \in LoopBpmVals : StartRegenerate(bpm)
     /\ UNCHANGED <<sceneVars, clockVars, audioVars, tempoState, frames, replayVars,
                    otherVars>>
  \/ /\ \E bpm \in LoopBpmVals, lastBeat \in LastBeatVals : StartExtend(bpm, lastBeat)
     /\ UNCHANGED <<sceneVars, clockVars, audioVars, tempoState, frames, replayVars,
                    otherVars>>
  \/ /\ BeatLoopStep
     /\ UNCHANGED <<sceneVars, clockVars, audioVars, tempoState, frames, replayVars,
                    otherVars>>
  \/ /\ BeatLoopExit
     /\ UNCHANGED <<sceneVars, clockVars, audioVars, tempoState, frames, replayVars,
                    otherVars>>

SpecBeatLoop == InitBeatLoop /\ [][NextBeatLoop]_vars

\* the list a finished loop leaves is the list SynthBeats computes
BeatLoopAgrees ==
  loopPc = "done" /\ loopBpm > 0 =>
    \/ loopBeats = RegenBeats(loopBpm)
    \/ \E lastBeat \in LastBeatVals :
         loopBeats = SynthBeats(lastBeat * loopBpm + BeatStepNum, loopBpm, <<lastBeat>>)
\* ------------------------------------------------------------------------
\* The frame callback of startRenderLoop
\* ------------------------------------------------------------------------
\* a variant of AdvancedTime that follows the wall clock while recording
AdvancedTimeWallClock(time, recording, speed, delta) ==
  time + (delta * speed) \div 4

\* lines 22-27: the clock advance of a playing frame; delta in units
AdvancedTime(time, recording, speed, delta) ==
  IF recording THEN time + ((SCALE \div RECORDING_FPS) * speed) \div 4
  ELSE time + (delta * speed) \div 4

\* a variant of FrameTime without the wrap to 0 at the end of the run
FrameTimeNoWrap(time, playing, recording, speed, delta) ==
  IF ~playing THEN time
  ELSE AdvancedTime(time, recording, speed, delta)

\* lines 29-38: the time the frame is evaluated at
FrameTime(time, playing, recording, speed, delta) ==
  IF ~playing THEN time
  ELSE IF AdvancedTime(time, recording, speed, delta) >= Dur /\ ~recording THEN 0
  ELSE AdvancedTime(time, recording, speed, delta)

\* the recording ends with the frame that reaches the duration
ReachesEnd(time, playing, recording, speed, delta) ==
  playing /\ recording /\ AdvancedTime(time, recording, speed, delta) >= Dur

\* stopRecording, lines 471-482: isRecording is cleared after
\* mediaRecorder.stop(); when stop() throws, the catch leaves it set
StopRecording(recording, stopOk) == IF recording /\ stopOk THEN FALSE ELSE recording

\* the audio element runs on its own clock: over the wall-clock delta of a
\* frame a playing element moves by delta * playbackRate (the track is
\* longer than the run)
AudioAdvanced(pos, playing, speed, delta) ==
  IF playing THEN pos + (delta * speed) \div 4 ELSE pos

\* 0.1 s, the drift the resync of line 43 tolerates
AUDIO_DRIFT == SCALE \div 10

Abs(x) == IF x < 0 THEN -x ELSE x

\* lines 40-49, inside `if (runtime.isPlaying)`: the audio position after
\* the resync of a frame that began with isPlaying = playing
AudioSynced(pos, time, playing, element, audio) ==
  IF playing /\ element /\ audio /\ Abs(pos - time) > AUDIO_DRIFT THEN time
  ELSE pos

\* updateExposureAndPost, lines 386-392
DEFAULT_EXPOSURE == 950

EXPOSURE_MIN == 250

EXPOSURE_MAX == 1800

BaseExposure(fx, ts, energy) ==
  LET exposureBase == IF fx.exposure >= 0 THEN fx.exposure ELSE DEFAULT_EXPOSURE
  IN  Clamp(exposureBase
              + (fx.flash * (ts.pulse + (energy * 800) \div MILLI)) \div MILLI
              + (fx.accentFlash * ts.accent) \div MILLI,
            EXPOSURE_MIN, EXPOSURE_MAX)

\* updateExposureAndPost, lines 346-396: the exposure it leaves on the
\* renderer (nothing is written without a current shot)
ExposureWritten(scene, shot, ts, energy, old) ==
  IF shot = 0 THEN old ELSE BaseExposure(scene.shots[shot].fx, ts, energy)

\* what updateExposureAndPost writes: bloom strength with a bloom pass, the
\* vignette and grain uniforms with a vignette pass, the exposure always
PostWrites(shot, bloom, vignette) ==
  IF shot = 0 THEN {}
  ELSE {"exposure"}
         \cup (IF bloom THEN {"bloom"} ELSE {})
         \cup (IF vignette THEN {"vignette"} ELSE {})

\* updateCameraPath, lines 158-168: the shot changed and the curve is
\* built from its points
CurveBuilt(scene, shot, old) ==
  scene.status = "ok" /\ Len(scene.shots) > 0 /\ shot # old

\* `shot.path.points.map(...)` throws without a usable path
BuildThrows(scene, shot) == scene.shots[shot].path # "points"

\* a variant of CurveAfter that drops the curve when the build throws
CurveAfterDropping(scene, shot, old, curve) ==
  IF ~CurveBuilt(scene, shot, old) THEN curve
  ELSE IF BuildThrows(scene, shot) THEN 0
  ELSE shot

\* runtime.cameraCurve after lines 158-168: assigned at line 162, after the
\* points have been mapped
CurveAfter(scene, shot, old, curve) ==
  IF ~CurveBuilt(scene, shot, old) THEN curve
  ELSE IF BuildThrows(scene, shot) THEN curve
  ELSE shot

\* the camera pose after updateCameraPath, lines 140-231: untouched when
\* there are no shots, when the build threw (return of line 166) or when
\* there is no curve (line 170); otherwise sampled from runtime.cameraCurve
\* with the timing of the selected shot
PoseAfter(scene, shot, old, curve, time, pose) ==
  IF scene.status # "ok" \/ Len(scene.shots) = 0 THEN pose
  ELSE IF CurveBuilt(scene, shot, old) /\ BuildThrows(scene, shot) THEN pose
  ELSE IF CurveAfter(scene, shot, old, curve) = 0 THEN pose
  ELSE [curve |-> CurveAfter(scene, shot, old, curve), shot |-> shot, time |-> time]

\* where a frame can throw: nowhere, in updateCinematicElements (before
\* updateExposureAndPost), or in composer.render() (after it)
FrameFaults == {"none", "cinematic", "render"}

\* a variant of Rescheduled that requests the next frame at the end of the
\* try block
RescheduledAtEnd(fault) == fault = "none"

\* line 14: requestAnimationFrame(render) is the first statement of the
\* callback, outside the try block
Rescheduled(fault) == TRUE

\* the count of consecutive recording frames at speed 1.0 since the
\* recording started
RecFramesAfter(count, playing, recording, speed) ==
  IF count >= 0 /\ playing /\ recording /\ speed = 4 THEN count + 1 ELSE -1

\* render(timestamp), lines 13-70: clock, end of the run, audio resync,
\* sampleAudioEnergy, updateTempoState, updateCameraPath (shot, curve and
\* pose), updateExposureAndPost.  delta is the wall-clock delta, bass the
\* analyser's mean bass level of this frame, stopOk whether
\* mediaRecorder.stop() returns, fault the step that throws.
Frame(delta, bass, stopOk, fault) ==
  LET time    == FrameTime(currentTime, isPlaying, isRecording, playbackSpeed, delta)
      ends    == ReachesEnd(currentTime, isPlaying, isRecording, playbackSpeed, delta)
      playing == IF ends THEN FALSE ELSE isPlaying
      energy  == sampleAudioEnergy(hasAudio, tempoState, time, bass)
      ts      == updateTempoState(tempoState, sceneData.beats, time,
                                  hasAudio, playing, energy)
      shot    == CameraShot(sceneData, time, currentShot)
  IN  /\ rafPending
      /\ rafPending' = Rescheduled(fault)
      /\ currentTime' = time
      /\ isRecording' = IF ends THEN StopRecording(isRecording, stopOk) ELSE isRecording
      /\ isPlaying' = playing
      /\ audioTime' = AudioSynced(AudioAdvanced(audioTime, audioPlaying, playbackSpeed, delta),
                                  time, isPlaying, audioElement, hasAudio)
      /\ recFrames' = RecFramesAfter(recFrames, isPlaying, isRecording, playbackSpeed)
      /\ lastAudioEnergy' = energy
      /\ tempoState' = ts
      /\ currentShot' = shot
      /\ cameraCurve' = CurveAfter(sceneData, shot, currentShot, cameraCurve)
      /\ cameraPose' = PoseAfter(sceneData, shot, currentShot, cameraCurve, time,
                                 cameraPose)
      /\ IF fault = "cinematic"
         THEN /\ exposure' = exposure
              /\ written' = {}
         ELSE /\ exposure' = ExposureWritten(sceneData, shot, ts, energy, exposure)
              /\ written' = PostWrites(shot, bloomPass, vignettePass)
      /\ UNCHANGED <<raw, normalized, sceneData, playbackSpeed, hasAudio,
                     audioElement, audioPlaying, composerPasses, bloomPass,
                     vignettePass>>

\* a frame in which nothing throws
RenderFrame(delta, bass) == Frame(delta, bass, TRUE, "none")

\* setupAudio: the element is created at the position of the clock, the
\* analyser is attached, and the element plays if the clock does
SetupAudio ==
  /\ ~hasAudio
  /\ hasAudio' = TRUE
  /\ audioElement' = TRUE
  /\ audioTime' = currentTime
  /\ audioPlaying' = isPlaying
  /\ UNCHANGED <<sceneVars, clockVars, lastAudioEnergy, tempoState, frames,
                 loopVars, replayVars, fxVars, camVars, loadVars, appVars, rafPending,
                 recFrames>>

\* the play/pause button, ui.js lines 58-77
TogglePlay ==
  /\ loopStarted
  /\ isPlaying' = ~isPlaying
  /\ audioPlaying' = IF audioElement THEN ~isPlaying ELSE audioPlaying
  /\ recFrames' = -1
  /\ UNCHANGED <<sceneVars, currentTime, isRecording, playbackSpeed, audioVars,
                 tempoState, frames, loopVars, replayVars, audioElement,
                 audioTime, fxVars, camVars, loadVars, appVars, rafPending>>

\* the R key, or the reset button
Restart ==
  /\ currentTime' = 0
  /\ audioTime' = IF audioElement THEN 0 ELSE audioTime
  /\ recFrames' = -1
  /\ UNCHANGED <<sceneVars, isPlaying, isRecording, playbackSpeed, audioVars,
                 tempoState, frames, loopVars, audioElement, audioPlaying,
                 fxVars, camVars, loadVars, appVars, rafPending>>

\* the BPM input handler with regenerateBeats
BpmInput(value) ==
  /\ sceneData.status = "ok"
  /\ value >= 40
  /\ sceneData' = [sceneData EXCEPT !.bpm = value, !.beats = RegenBeats(value)]
  /\ tempoState' = [tempoState EXCEPT
                      !.bpm = value,
                      !.beatDuration = BeatDurationOf(value),
                      !.barDuration = BeatDurationOf(value) * 4,
                      !.beatIndex = 0,
                      !.lastBeatTime = 0,
                      !.nextBeatTime = BeatDurationOf(value),
                      !.audioPulse = 0,
                      !.energy = 0]
  /\ UNCHANGED <<raw, normalized, currentShot, clockVars, audioVars, frames,
                 loopVars, replayVars, otherVars>>

\* the state right after applySceneData(r) on a fresh runtime
Applied(r) ==
  /\ raw = r
  /\ normalized = normalizeSceneData(r)
  /\ sceneData = normalized
  /\ currentShot = 0
  /\ tempoState = resetTempoState(sceneData.bpm)
  /\ frames = 0

\* ------------------------------------------------------------------------
\* Specification of the tempo engine: frames with time jumps, audio, BPM
\* changes and restarts
\* ------------------------------------------------------------------------
\* scenes of a tempo run: the minimal scene, and one whose beats list
\* normalizeSceneData leaves empty
TempoRawInputs ==
  { NullRaw,
    RawObj("obj", 1, NoArray, ArrayOf(<< [finite |-> FALSE, v |-> 0] >>)) }

\* wall-clock deltas in units: 0.125 s and a stall of 10 s
TempoDeltas == {SCALE \div 8, 10 * SCALE}

InitTempo ==
  /\ \E r \in TempoRawInputs : Applied(r)
  /\ ClockIdle
  /\ AudioIdle
  /\ LoopIdle
  /\ ReplayIdle
  /\ RestIdle

TempoFrame ==
  /\ frames < MaxFrames
  /\ \E delta \in TempoDeltas, bass \in AudioBassLevels : RenderFrame(delta, bass)
  /\ frames' = frames + 1
  /\ UNCHANGED <<loopVars, replayVars, loadVars, appVars>>

TempoRestart == Restart /\ UNCHANGED replayVars

\* the BPM control is moved to 90
TempoBpmInput == BpmInput(90)

NextTempo ==
  \/ TempoFrame
  \/ SetupAudio
  \/ TogglePlay
  \/ TempoRestart
  \/ TempoBpmInput

SpecTempo == InitTempo /\ [][NextTempo]_vars

\* ------------------------------------------------------------------------
\* Specification of a run with audio: paused frames sampling the analyser
\* ------------------------------------------------------------------------
InitAudio ==
  /\ Applied(NullRaw)
  /\ ClockIdle
  /\ AudioIdle
  /\ LoopIdle
  /\ ReplayIdle
  /\ RestIdle

AudioFrame ==
  /\ frames < MaxAudioFrames
  /\ \E bass \in AudioBassLevels : RenderFrame(SCALE \div 8, bass)
  /\ frames' = frames + 1
  /\ UNCHANGED <<loopVars, replayVars, loadVars, appVars>>

NextAudio == AudioFrame \/ SetupAudio

SpecAudio == InitAudio /\ [][NextAudio]_vars

\* ------------------------------------------------------------------------
\* Specification of a replay: a first run of playing frames on a freshly
\* applied scene, a rewind to 0 (R key, reset button, or the loop wrap of a
\* frame), then frames at the frame times of the first run
\* ------------------------------------------------------------------------
\* wall-clock deltas in units: 0.4999 s, 0.1001 s and a stall of 29.75 s
ReplayDeltas == {SCALE \div 2 - 1, SCALE \div 10 + 1, 29 * SCALE + 7500}

BeatTriple(ts) == <<ts.beatIndex, ts.lastBeatTime, ts.nextBeatTime>>

InitReplay ==
  /\ Applied(NullRaw)
  /\ currentTime = 0
  /\ isPlaying = TRUE
  /\ isRecording = FALSE
  /\ playbackSpeed = 4
  /\ AudioIdle
  /\ LoopIdle
  /\ ReplayIdle
  /\ RestIdle

\* a frame of the first run; the frame that wraps to 0 starts the replay
FirstRunFrame ==
  /\ phase = "first"
  /\ Len(trace) < MaxReplayFrames
  /\ \E delta \in ReplayDeltas :
       /\ RenderFrame(delta, 0)
       /\ IF AdvancedTime(currentTime, isRecording, playbackSpeed, delta) >= Dur
          THEN /\ Len(trace) > 0
               /\ phase' = "replay"
               /\ UNCHANGED trace
          ELSE /\ trace' = Append(trace, [time |-> currentTime',
                                          beat |-> BeatTriple(tempoState')])
               /\ UNCHANGED phase
  /\ UNCHANGED <<frames, loopVars, replayPos, loadVars, appVars>>

\* the R key or the reset button ends the first run
ReplayRestart ==
  /\ phase = "first"
  /\ Len(trace) > 0
  /\ Restart
  /\ phase' = "replay"
  /\ UNCHANGED <<trace, replayPos>>

\* the next frame of the replay lands on the next frame time of the trace
ReplayFrame ==
  /\ phase = "replay"
  /\ replayPos < Len(trace)
  /\ trace[replayPos + 1].time >= currentTime
  /\ RenderFrame(trace[replayPos + 1].time - currentTime, 0)
  /\ replayPos' = replayPos + 1
  /\ UNCHANGED <<frames, loopVars, phase, trace, loadVars, appVars>>

NextReplay == FirstRunFrame \/ ReplayRestart \/ ReplayFrame

SpecReplay == InitReplay /\ [][NextReplay]_vars

\* ------------------------------------------------------------------------
\* init(), the start button and the keyboard
\* ------------------------------------------------------------------------
\* how setupPostProcessing can end: every pass built, a shader dependency
\* missing (lines 24-29), the bloom pass constructor throwing (line 31), the
\* vignette material or pass constructor throwing (lines 40-89)
PostOutcomes == {"full", "missingShader", "bloomThrows", "vignetteThrows"}

\* setupPostProcessing, lines 18-99: the passes added to the composer and
\* the runtime fields assigned before the catch block is entered
setupPostProcessing(outcome) ==
  [passes   |-> {"render"}
                  \cup (IF outcome \in {"full", "vignetteThrows"} THEN {"bloom"} ELSE {})
                  \cup (IF outcome = "full" THEN {"vignette"} ELSE {}),
   bloom    |-> outcome \in {"full", "vignetteThrows"},
   vignette |-> outcome = "full"]

\* where init() can throw: nowhere, in setupRenderer..setupLights (lines
\* 26-29, before the UI is set up), while the scene is loaded and applied
\* (lines 38-47), or at `new THREE.EffectComposer` (setupPostProcessing
\* line 18)
InitFailures == {"none", "renderer", "scene", "post"}

\* the page before init()
Boot ==
  /\ SceneIdle
  /\ ClockIdle
  /\ AudioIdle
  /\ tempoState = InitialTempoState
  /\ frames = 0
  /\ LoopIdle
  /\ ReplayIdle
  /\ MediaIdle
  /\ composerPasses = {}
  /\ bloomPass = FALSE
  /\ vignettePass = FALSE
  /\ exposure = InitialExposure
  /\ written = {}
  /\ LoadIdle
  /\ CameraIdle
  /\ uiSetups = 0
  /\ splashHidden = FALSE
  /\ loopStarted = FALSE
  /\ rafPending = FALSE
  /\ recFrames = -1

\* init(), main.js lines 11-73, with the minimal scene: setupUI and
\* setupKeyboard run at lines 31-32 and again in the recovery branch of
\* lines 65-68
InitApp(failAt, post) ==
  LET scene == normalizeSceneData(NullRaw)
      fx    == setupPostProcessing(post)
  IN  /\ uiSetups = 0
      /\ uiSetups' = IF failAt \in {"scene", "post"} THEN 2 ELSE 1
      /\ IF failAt \in {"none", "post"}
         THEN /\ normalized' = scene
              /\ sceneData' = scene
              /\ tempoState' = resetTempoState(scene.bpm)
         ELSE UNCHANGED <<normalized, sceneData, tempoState>>
      /\ IF failAt = "none"
         THEN /\ composerPasses' = fx.passes
              /\ bloomPass' = fx.bloom
              /\ vignettePass' = fx.vignette
         ELSE UNCHANGED <<composerPasses, bloomPass, vignettePass>>
      /\ loopStarted' = (failAt = "none")
      /\ rafPending' = (failAt = "none")
      /\ UNCHANGED <<raw, currentShot, clockVars, audioVars, frames, loopVars,
                     replayVars, mediaVars, exposure, written, camVars,
                     loadVars, splashHidden, recFrames>>

\* a variant of RecordingTempo that leaves the beat bookkeeping as it is
RecordingTempoKept(ts) == [ts EXCEPT !.audioPulse = 0, !.energy = 0]

\* the beat bookkeeping startRecording resets, lines 456-460
RecordingTempo(ts) ==
  [ts EXCEPT !.beatIndex = 0, !.lastBeatTime = 0, !.nextBeatTime = ts.beatDuration,
             !.audioPulse = 0, !.energy = 0]

\* the start button, ui.js lines 40-55, with startRecording, lines 402-469:
\* recOk is whether captureStream and the MediaRecorder work; when they
\* throw, startRecording changes nothing.  Every registered click listener
\* runs; the second finds the recording started, or fails as the first did.
StartButton(recOk) ==
  LET started == ~isRecording /\ recOk
  IN  /\ uiSetups > 0
      /\ ~splashHidden
      /\ splashHidden' = TRUE
      /\ isPlaying' = TRUE
      /\ isRecording' = (isRecording \/ recOk)
      /\ currentTime' = IF started THEN 0 ELSE currentTime
      /\ audioTime' = IF started /\ audioElement THEN 0 ELSE audioTime
      /\ audioPlaying' = IF started /\ audioElement THEN TRUE ELSE audioPlaying
      /\ tempoState' = IF started THEN RecordingTempo(tempoState) ELSE tempoState
      /\ recFrames' = IF started THEN 0 ELSE -1
      /\ UNCHANGED <<sceneVars, playbackSpeed, audioVars, frames, loopVars,
                     replayVars, audioElement, fxVars, camVars, loadVars, uiSetups,
                     loopStarted, rafPending>>

\* isPlaying after n listeners have each run `isPlaying = !isPlaying`
Toggled(playing, n) == IF n % 2 = 1 THEN ~playing ELSE playing

\* the SPACE key, ui.js lines 243-258: every keydown listener that
\* setupKeyboard registered runs the toggle
KeySpace ==
  /\ uiSetups > 0
  /\ splashHidden
  /\ isPlaying' = Toggled(isPlaying, uiSetups)
  /\ audioPlaying' = IF audioElement THEN isPlaying' ELSE audioPlaying
  /\ recFrames' = -1
  /\ UNCHANGED <<sceneVars, currentTime, isRecording, playbackSpeed, audioVars,
                 tempoState, frames, loopVars, replayVars, audioElement,
                 audioTime, fxVars, camVars, loadVars, appVars, rafPending>>

\* playbackSpeed limits in quarters: 0.5 and 2.0
SPEED_MIN == 2

SPEED_MAX == 8

\* a variant of SpeedAfter without the saturation
SpeedAfterUnclamped(speed, step, n) == speed + n * step

\* the speed after n listeners have each moved it by step (-1: ',' key,
\* +1: '.' key), ui.js lines 271 and 278
SpeedAfter(speed, step, n) == Clamp(speed + n * step, SPEED_MIN, SPEED_MAX)

\* the ',' and '.' keys, ui.js lines 270-283
KeySpeed(step) ==
  /\ uiSetups > 0
  /\ playbackSpeed' = SpeedAfter(playbackSpeed, step, uiSetups)
  /\ recFrames' = -1
  /\ UNCHANGED <<sceneVars, currentTime, isPlaying, isRecording, audioVars,
                 tempoState, frames, loopVars, replayVars, mediaVars, fxVars, camVars,
                 loadVars, appVars, rafPending>>

SpeedDown == KeySpeed(-1)

SpeedUp == KeySpeed(1)

\* ------------------------------------------------------------------------
\* Specification of the player: init() on every path, the start button,
\* the keyboard, and frames with jitter and exceptions
\* ------------------------------------------------------------------------
\* wall-clock deltas in units: none, 1 ms, and a stall of 29.5 s
PlayerDeltas == {0, SCALE \div 1000, 29 * SCALE + SCALE \div 2}

\* init() with every effect pass built
PlayerInit ==
  /\ \E failAt \in InitFailures : InitApp(failAt, "full")

PlayerStart ==
  /\ \E recOk \in BOOLEAN : StartButton(recOk)

PlayerFrame ==
  /\ frames < MaxPlayerFrames
  /\ \E delta \in PlayerDeltas, fault \in FrameFaults : Frame(delta, 0, TRUE, fault)
  /\ frames' = frames + 1
  /\ UNCHANGED <<loopVars, replayVars, loadVars, appVars>>

NextPlayer ==
  \/ PlayerInit
  \/ PlayerStart
  \/ PlayerFrame
  \/ KeySpace
  \/ TempoRestart
  \/ SpeedDown
  \/ SpeedUp

SpecPlayer == Boot /\ [][NextPlayer]_vars

\* ------------------------------------------------------------------------
\* Specification of the effects: init() with every outcome of
\* setupPostProcessing, then real-time playback of the minimal scene
\* ------------------------------------------------------------------------
\* wall-clock deltas in units: 0.125 s and a stall of 29.5 s, which lands
\* inside the fade window of the emergency shot
FxDeltas == {SCALE \div 8, 29 * SCALE + SCALE \div 2}

FxInit ==
  /\ \E post \in PostOutcomes : InitApp("none", post)

FxStart ==
  /\ \E recOk \in BOOLEAN : StartButton(recOk)

FxFrame ==
  /\ frames < MaxFxFrames
  /\ \E delta \in FxDeltas : RenderFrame(delta, 0)
  /\ frames' = frames + 1
  /\ UNCHANGED <<loopVars, replayVars, loadVars, appVars>>

NextFx == FxInit \/ FxStart \/ FxFrame

SpecFx == Boot /\ [][NextFx]_vars

\* ------------------------------------------------------------------------
\* Specification of a recorded run: init(), an optional track dropped on
\* the splash, the start click with a working recorder, the frames of the
\* recording up to the duration, and SPACE after the run has ended
\* ------------------------------------------------------------------------
\* wall-clock deltas in units: in step with the capture rate (0.04 s), and
\* slow rendering (0.125 s)
RecordDeltas == {SCALE \div RECORDING_FPS, SCALE \div 8}

RecordInit == InitApp("none", "full")

RecordSetupAudio ==
  /\ uiSetups > 0
  /\ ~splashHidden
  /\ SetupAudio

RecordStart == StartButton(TRUE)

RecordFrame ==
  /\ splashHidden
  /\ frames < MaxRecordFrames
  /\ \E delta \in RecordDeltas, stopOk \in BOOLEAN : Frame(delta, 0, stopOk, "none")
  /\ frames' = frames + 1
  /\ UNCHANGED <<loopVars, replayVars, loadVars, appVars>>

\* SPACE once the run has reached the duration and paused
RecordResume ==
  /\ ~isPlaying
  /\ currentTime >= Dur
  /\ KeySpace

NextRecord ==
  \/ RecordInit
  \/ RecordSetupAudio
  \/ RecordStart
  \/ RecordFrame
  \/ RecordResume

SpecRecord == Boot /\ [][NextRecord]_vars

\* ------------------------------------------------------------------------
\* loadSceneDataAsync and loadInlineScene, step by step
\* ------------------------------------------------------------------------
\* the delay of setTimeout(() => controller.abort(), 3000), in seconds
LOAD_TIMEOUT == 3

\* scene values a JSON document can hold: null, a number, a scene with a
\* null shot, a well-formed scene, a scene with a negative bpm
LoadRawInputs ==
  { NullRaw,
    [kind |-> "prim", meta |-> "absent", bpm |-> 0, shots |-> NoArray, beats |-> NoArray],
    RawObj("obj", 0, ArrayOf(<< [tag |-> "null", timeIsArray |-> FALSE,
                                 time |-> <<>>, fx |-> NoFx, path |-> "points"] >>), NoArray),
    RawObj("obj", 90, NoArray, NoArray),
    RawObj("obj", -60, NoArray, NoArray) }

\* what the network does with fetch('scene.json'): no response ever, a
\* rejected fetch, a response with an error status, an ok response whose
\* body never finishes, whose body is not JSON, or whose body is JSON
NetOutcomes ==
  { [kind |-> k, raw |-> NullRaw] : k \in {"never", "reject", "http", "stall", "notjson"} }
  \cup { [kind |-> "json", raw |-> r] : r \in LoadRawInputs }

\* the #scene-inline element: missing, not parsable, or JSON
InlineStates ==
  { [kind |-> k, raw |-> NullRaw] : k \in {"missing", "unparsable"} }
  \cup { [kind |-> "json", raw |-> r] : r \in LoadRawInputs }

\* loadInlineScene, lines 122-133: the parsed payload, or the minimal scene
\* when the element is missing or JSON.parse throws
loadInlineScene(inline) ==
  IF inline.kind = "json" THEN inline.raw ELSE createMinimalScene

\* the catch block of loadSceneDataAsync, line 118
InlineFallback(inline) == normalizeSceneData(loadInlineScene(inline))

\* how the async function ends with the outcome r of its last
\* normalizeSceneData call: it resolves, it rejects (the call threw inside
\* the catch block), or it never returns
Settle(r) ==
  /\ loadPc' = IF r.status = "hang" THEN "hung" ELSE "done"
  /\ loadResult' = r

\* lines 107-110: the timer is armed and the request sent
LoadStart(net, inline) ==
  /\ loadPc = "idle"
  /\ loadPc' = "fetch"
  /\ loadTimer' = TRUE
  /\ loadElapsed' = 0
  /\ loadNet' = net
  /\ loadInline' = inline
  /\ UNCHANGED loadResult

\* a second passes while the function awaits; an armed timer fires at
\* LOAD_TIMEOUT before more time passes
LoadTick ==
  /\ loadPc \in {"fetch", "body"}
  /\ loadElapsed < MaxLoadSeconds
  /\ ~(loadTimer /\ loadElapsed >= LOAD_TIMEOUT)
  /\ loadElapsed' = loadElapsed + 1
  /\ UNCHANGED <<loadPc, loadTimer, loadNet, loadInline, loadResult>>

\* the timer fires: controller.abort() rejects the pending await, and the
\* catch block falls back to the inline scene
LoadAbort ==
  /\ loadPc \in {"fetch", "body"}
  /\ loadTimer
  /\ loadElapsed >= LOAD_TIMEOUT
  /\ loadTimer' = FALSE
  /\ Settle(InlineFallback(loadInline))
  /\ UNCHANGED <<loadElapsed, loadNet, loadInline>>

\* the fetch settles, lines 110-113: a rejection goes to the catch block;
\* a response clears the timer (line 111), and an error status throws
LoadResponse ==
  /\ loadPc = "fetch"
  /\ loadNet.kind # "never"
  /\ IF loadNet.kind = "reject"
     THEN /\ Settle(InlineFallback(loadInline))
          /\ UNCHANGED loadTimer
     ELSE /\ loadTimer' = FALSE
          /\ IF loadNet.kind = "http"
             THEN Settle(InlineFallback(loadInline))
             ELSE /\ loadPc' = "body"
                  /\ UNCHANGED loadResult
  /\ UNCHANGED <<loadElapsed, loadNet, loadInline>>

\* response.json() settles, lines 114-115: a body that is not JSON rejects;
\* a parsed body is normalized, and an exception of normalizeSceneData goes
\* to the catch block as well
LoadBody ==
  /\ loadPc = "body"
  /\ loadNet.kind \in {"notjson", "json"}
  /\ IF loadNet.kind = "json" /\ normalizeSceneData(loadNet.raw).status # "throw"
     THEN Settle(normalizeSceneData(loadNet.raw))
     ELSE Settle(InlineFallback(loadInline))
  /\ UNCHANGED <<loadTimer, loadElapsed, loadNet, loadInline>>

InitLoad ==
  /\ SceneIdle
  /\ ClockIdle
  /\ AudioIdle
  /\ tempoState = InitialTempoState
  /\ frames = 0
  /\ LoopIdle
  /\ ReplayIdle
  /\ RestIdle

NextLoad ==
  \/ /\ \E net \in NetOutcomes, inline \in InlineStates : LoadStart(net, inline)
     /\ UNCHANGED <<sceneVars, clockVars, audioVars, tempoState, frames, loopVars,
                    replayVars, mediaVars, fxVars, camVars, appVars, rafPending, recFrames,
                    presetLoads>>
  \/ /\ LoadTick
     /\ UNCHANGED <<sceneVars, clockVars, audioVars, tempoState, frames, loopVars,
                    replayVars, mediaVars, fxVars, camVars, appVars, rafPending, recFrames,
                    presetLoads>>
  \/ /\ LoadAbort
     /\ UNCHANGED <<sceneVars, clockVars, audioVars, tempoState, frames, loopVars,
                    replayVars, mediaVars, fxVars, camVars, appVars, rafPending, recFrames,
                    presetLoads>>
  \/ /\ LoadResponse
     /\ UNCHANGED <<sceneVars, clockVars, audioVars, tempoState, frames, loopVars,
                    replayVars, mediaVars, fxVars, camVars, appVars, rafPending, recFrames,
                    presetLoads>>
  \/ /\ LoadBody
     /\ UNCHANGED <<sceneVars, clockVars, audioVars, tempoState, frames, loopVars,
                    replayVars, mediaVars, fxVars, camVars, appVars, rafPending, recFrames,
                    presetLoads>>

SpecLoad == InitLoad /\ [][NextLoad]_vars

\* ------------------------------------------------------------------------
\* The preset selector, ui.js lines 194-231.  Each selection starts a run
\* of the async handler; a run is at "fetch" (awaiting presets/insane.json),
\* "body" (awaiting response.json()), "load" (awaiting loadSceneDataAsync)
\* or "done", and `scene` is the scene it has applied (NoScene: none).
\* ------------------------------------------------------------------------
\* a preset file: two shots, the second without a usable path, bpm 90 and
\* one explicit beat at 5 s
InsaneRaw ==
  RawObj("obj", 90,
         ArrayOf(<< [tag |-> "obj", timeIsArray |-> TRUE, time |-> <<0, 10 * SCALE>>,
                     fx |-> NoFx, path |-> "points"],
                    [tag |-> "obj", timeIsArray |-> TRUE, time |-> <<10 * SCALE, Dur>>,
                     fx |-> NoFx, path |-> "none"] >>),
         ArrayOf(<< [finite |-> TRUE, v |-> 5 * SCALE] >>))

\* what the body of presets/insane.json parses to: the preset, or a scene
\* with a null shot
PresetBodies ==
  { InsaneRaw,
    RawObj("obj", 0, ArrayOf(<< [tag |-> "null", timeIsArray |-> FALSE,
                                 time |-> <<>>, fx |-> NoFx, path |-> "points"] >>),
           NoArray) }

\* JSON.parse(JSON.stringify(data)) of a normalized Scene, line 59: the
\* value normalizeSceneData goes on with when it is handed a Scene
SceneAsRaw(scene) ==
  RawObj("obj", scene.bpm,
         ArrayOf([i \in 1..Len(scene.shots) |->
                    [tag |-> "obj", timeIsArray |-> TRUE, time |-> scene.shots[i].time,
                     fx |-> scene.shots[i].fx, path |-> scene.shots[i].path]]),
         ArrayOf([i \in 1..Len(scene.beats) |-> [finite |-> TRUE, v |-> scene.beats[i]]]))

\* applySceneData(data) for an already normalized Scene, followed by the
\* two statements every branch of the handler runs after it: the scene is
\* normalized again and replaces runtime.sceneData, the tempo state is
\* reset, shot and curve are dropped, the clock and the audio rewind
ApplyLoaded(data) ==
  LET scene == normalizeSceneData(SceneAsRaw(data))
  IN  /\ raw' = SceneAsRaw(data)
      /\ normalized' = scene
      /\ sceneData' = scene
      /\ tempoState' = resetTempoState(scene.bpm)
      /\ currentShot' = 0
      /\ cameraCurve' = 0
      /\ currentTime' = 0
      /\ audioTime' = IF audioElement THEN 0 ELSE audioTime
      /\ recFrames' = -1
      /\ UNCHANGED <<isPlaying, isRecording, playbackSpeed, audioVars, frames,
                     loopVars, replayVars, audioElement, audioPlaying, fxVars,
                     cameraPose, loadPc, loadTimer, loadElapsed, loadNet,
                     loadInline, loadResult, appVars, rafPending>>

\* everything a step of the handler leaves alone when it applies nothing
PresetIdle ==
  UNCHANGED <<sceneVars, clockVars, audioVars, tempoState, frames, loopVars,
              replayVars, mediaVars, fxVars, camVars, loadPc, loadTimer,
              loadElapsed, loadNet, loadInline, loadResult, appVars,
              rafPending, recFrames>>

\* the change event, lines 196-204 and 225: the handler runs up to its
\* first await
PresetSelect(preset) ==
  /\ uiSetups > 0
  /\ Len(presetLoads) < MaxSelections
  /\ presetLoads' = Append(presetLoads,
                           [preset |-> preset,
                            pc |-> IF preset = "insane" THEN "fetch" ELSE "load",
                            scene |-> NoScene])
  /\ PresetIdle

\* a variant of PresetResponse that drops the current shot and the curve as
\* soon as the response arrives
PresetResponseResetting(i, ok) ==
  /\ i \in 1..Len(presetLoads)
  /\ presetLoads[i].pc = "fetch"
  /\ presetLoads' = [presetLoads EXCEPT ![i].pc = IF ok THEN "body" ELSE "load"]
  /\ currentShot' = 0
  /\ cameraCurve' = 0
  /\ UNCHANGED <<raw, normalized, sceneData, clockVars, audioVars, tempoState,
                 frames, loopVars, replayVars, mediaVars, fxVars, cameraPose,
                 loadPc, loadTimer, loadElapsed, loadNet, loadInline,
                 loadResult, appVars, rafPending, recFrames>>

\* the fetch of presets/insane.json settles, lines 204-207 and 213-219: an
\* ok response goes on to its body; a rejection, an abort or an error
\* status goes to the catch block, which awaits loadSceneDataAsync
PresetResponse(i, ok) ==
  /\ i \in 1..Len(presetLoads)
  /\ presetLoads[i].pc = "fetch"
  /\ presetLoads' = [presetLoads EXCEPT ![i].pc = IF ok THEN "body" ELSE "load"]
  /\ PresetIdle

\* response.json() settles, lines 208-212: the parsed body is normalized and
\* applied; a body that is not JSON (isJson false) or an exception of
\* normalizeSceneData goes to the catch block
PresetBody(i, isJson, body) ==
  LET data == normalizeSceneData(body)
  IN  /\ i \in 1..Len(presetLoads)
      /\ presetLoads[i].pc = "body"
      /\ data.status # "hang"
      /\ IF isJson /\ data.status = "ok"
         THEN /\ presetLoads' = [presetLoads EXCEPT ![i].pc = "done", ![i].scene = data]
              /\ ApplyLoaded(data)
         ELSE /\ presetLoads' = [presetLoads EXCEPT ![i].pc = "load"]
              /\ PresetIdle

\* how a call of loadSceneDataAsync that returns settles, over what the
\* network and the inline payload can be: resolved with the scene of the
\* network or of the inline fallback (status "ok"), or rejected ("throw")
LoadSettlements ==
  { r \in { IF net.kind = "json" /\ normalizeSceneData(net.raw).status # "throw"
            THEN normalizeSceneData(net.raw)
            ELSE InlineFallback(inline) :
              net \in { n \in NetOutcomes : n.kind # "stall" },
              inline \in InlineStates } :
      r.status # "hang" }

\* loadSceneDataAsync settles, lines 219-222 and 225-228: a scene is
\* applied, a rejection ends the handler
PresetLoaded(i, data) ==
  /\ i \in 1..Len(presetLoads)
  /\ presetLoads[i].pc = "load"
  /\ IF data.status = "ok"
     THEN /\ presetLoads' = [presetLoads EXCEPT ![i].pc = "done", ![i].scene = data]
          /\ ApplyLoaded(data)
     ELSE /\ presetLoads' = [presetLoads EXCEPT ![i].pc = "done"]
          /\ PresetIdle

\* ------------------------------------------------------------------------
\* Specification of a session with presets: the minimal scene playing,
\* preset selections whose loads overlap, frames, and the BPM control
\* ------------------------------------------------------------------------
\* the wall-clock delta of a frame in units: 5 s
PresetDeltas == {5 * SCALE}

InitPreset ==
  /\ Applied(NullRaw)
  /\ currentTime = 0
  /\ isPlaying = TRUE
  /\ isRecording = FALSE
  /\ playbackSpeed = 4
  /\ AudioIdle
  /\ LoopIdle
  /\ ReplayIdle
  /\ RestIdle

PresetFrame ==
  /\ frames < MaxPresetFrames
  /\ \E delta \in PresetDeltas : RenderFrame(delta, 0)
  /\ frames' = frames + 1
  /\ UNCHANGED <<loopVars, replayVars, loadVars, appVars>>

NextPreset ==
  \/ \E preset \in {"insane", "main"} : PresetSelect(preset)
  \/ \E i \in 1..MaxSelections, ok \in BOOLEAN : PresetResponse(i, ok)
  \/ \E i \in 1..MaxSelections, isJson \in BOOLEAN, body \in PresetBodies :
       PresetBody(i, isJson, body)
  \/ \E i \in 1..MaxSelections, data \in LoadSettlements : PresetLoaded(i, data)
  \/ PresetFrame
  \/ TempoBpmInput

SpecPreset == InitPreset /\ [][NextPreset]_vars

\* ------------------------------------------------------------------------
\* Claims about the scene model
\* ------------------------------------------------------------------------
Shots == normalized.shots

AppliedShots == sceneData.shots

Beats == normalized.beats

\* C1: normalizeSceneData(raw) never throws, whatever the raw input is; it
\* always returns a Scene.
C1_NeverThrows == normalized.status # "throw"

\* C2: the Scene returned by normalizeSceneData has a non-empty shots list.
C2_ShotsNonEmpty == normalized.status = "ok" => Len(Shots) > 0

\* C3: after normalizeSceneData every shot satisfies
\* 0 <= start < end <= meta.duration.
C3_ShotWindows ==
  normalized.status = "ok" =>
    \A i \in 1..Len(Shots) :
      /\ 0 <= Shots[i].time[1]
      /\ Shots[i].time[1] < Shots[i].time[2]
      /\ Shots[i].time[2] <= normalized.duration

\* C4: after normalizeSceneData the shots are sorted by start time and
\* consecutive shots do not overlap (end of the earlier <= start of the
\* later).
C4_SortedNoOverlap ==
  normalized.status = "ok" =>
    \A i \in 1..(Len(Shots) - 1) :
      /\ Shots[i].time[1] <= Shots[i + 1].time[1]
      /\ Shots[i].time[2] <= Shots[i + 1].time[1]

\* C5: after normalizeSceneData the beats list is non-empty, strictly
\* ascending, inside [0, duration], and its last beat is less than one
\* beatDuration = 60/bpm before the duration.
C5_BeatsSpanDuration ==
  normalized.status = "ok" =>
    /\ Len(Beats) > 0
    /\ \A i \in 1..(Len(Beats) - 1) : Beats[i] < Beats[i + 1]
    /\ \A i \in 1..Len(Beats) : 0 <= Beats[i] /\ Beats[i] <= normalized.duration
    /\ (normalized.duration - Beats[Len(Beats)]) * normalized.bpm < BeatStepNum

\* C7: shot selection picks the earliest shot in list order whose
\* [start, end) contains the time, and the last shot for every time at or
\* after the last shot's end.
C7_SelectShot ==
  currentShot # 0 =>
    /\ currentShot \in 1..Len(AppliedShots)
    /\ (\E i \in 1..Len(AppliedShots) : Contains(AppliedShots[i], currentTime)) =>
          /\ Contains(AppliedShots[currentShot], currentTime)
          /\ \A j \in 1..(currentShot - 1) : ~Contains(AppliedShots[j], currentTime)
    /\ currentTime >= AppliedShots[Len(AppliedShots)].time[2] =>
          currentShot = Len(AppliedShots)

\* C6: the beat-synthesis loop finishes after finitely many steps: stepping
\* by 60/bpm towards the duration it runs at most duration/|60/bpm| + 1
\* iterations, for every bpm a scene file or the BPM control supplies.
C6_LoopTerminates ==
  loopPc = "loop" =>
    loopIter * BeatStepNum
      <= (Dur + TOLERANCE) * (IF loopBpm < 0 THEN -loopBpm ELSE loopBpm) + BeatStepNum

\* ------------------------------------------------------------------------
\* Claims about the tempo engine
\* ------------------------------------------------------------------------
InUnit(x) == 0 <= x /\ x <= MILLI

\* C8: after every updateTempoState call pulse, accent and beatPulse are
\* each in [0,1].
C8_PulseAccentInUnit ==
  /\ InUnit(tempoState.pulse)
  /\ InUnit(tempoState.accent)
  /\ InUnit(tempoState.beatPulse)

\* a frame has run with the beat pulse and the audio pulse both high, so
\* that the sum 0.6 beatPulse + 0.7 audioPulse is beyond 1 before the clamp
C8_Witness ==
  /\ frames > 0
  /\ tempoState.beatPulse * 600 + tempoState.audioPulse * 700 > MILLI * MILLI
  /\ tempoState.pulse = MILLI

\* C9: after every updateTempoState call audioPulse and energy are each in
\* [0,1].
C9_AudioPulseEnergyInUnit ==
  /\ InUnit(tempoState.audioPulse)
  /\ InUnit(tempoState.energy)

\* C10: determinism under reset: at every replayed frame beatIndex,
\* lastBeatTime and nextBeatTime equal the values of the first run at the
\* same frame time.
C10_ReplayDeterministic ==
  phase = "replay" /\ replayPos > 0 =>
    /\ currentTime = trace[replayPos].time
    /\ BeatTriple(tempoState) = trace[replayPos].beat

\* ------------------------------------------------------------------------
\* Claims about the clock and the player
\* ------------------------------------------------------------------------
\* one recording frame at speed 1.0: 1/25 s
RecordingStep == SCALE \div RECORDING_FPS

\* C11: while isPlaying and isRecording are both true every frame advances
\* currentTime by exactly (1/25) * playbackSpeed, whatever the wall-clock
\* delta of the frame; and at speed 1.0, N consecutive recording frames
\* after a recording start give currentTime = N/25 while N/25 is below the
\* duration.
C11_RecordingClock ==
  /\ [](recFrames >= 0 /\ recFrames * RecordingStep < Dur
          => currentTime = recFrames * RecordingStep)
  /\ [][frames' = frames + 1 /\ isPlaying /\ isRecording
          => currentTime' = currentTime + (RecordingStep * playbackSpeed) \div 4]_vars

\* two recording frames have run since the recording started
C11_Witness ==
  /\ isPlaying
  /\ isRecording
  /\ recFrames = 2
  /\ currentTime = 2 * RecordingStep

\* C16: once the render loop has started every invocation of the frame
\* callback schedules the next frame, also when a step of the frame throws:
\* in every reachable state of a started loop a render callback is pending,
\* so another frame is eventually run.
C16_FrameRescheduled == loopStarted => rafPending

\* a frame has thrown in updateCinematicElements: it selected a shot but
\* did not reach updateExposureAndPost, and the next frame is scheduled
C16_Witness ==
  /\ frames > 0
  /\ currentShot # 0
  /\ written = {}
  /\ rafPending

\* C18: playbackSpeed is in [0.5, 2.0] in every reachable state: from 1.0
\* the ',' and '.' keys move it in steps of 0.25 and it saturates at 0.5
\* and 2.0.
C18_SpeedInRange == playbackSpeed \in SPEED_MIN..SPEED_MAX

\* the '.' key has driven the speed to 2.0, where the next press saturates
C18_Witness ==
  /\ uiSetups > 0
  /\ playbackSpeed = SPEED_MAX
  /\ SpeedAfter(playbackSpeed, 1, uiSetups) = SPEED_MAX

\* C19: once the splash is hidden one SPACE key press flips isPlaying
\* exactly once, on every initialization path, the error-recovery path of
\* init() included.
C19_SpaceFlipsOnce == [][KeySpace => isPlaying' = ~isPlaying]_vars

\* C12: when the time advance of a frame makes currentTime >= the scene
\* duration, a recording frame ends with isRecording = false and
\* isPlaying = false, and a frame that is not recording sets currentTime to
\* 0 and keeps isPlaying true.
C12_EndOfRun ==
  [][frames' = frames + 1 /\ isPlaying =>
       IF isRecording
       THEN currentTime + (RecordingStep * playbackSpeed) \div 4 >= Dur
              => ~isRecording' /\ ~isPlaying'
       ELSE /\ isPlaying'
            /\ currentTime' < Dur
            /\ (currentTime' < currentTime => currentTime' = 0)]_vars

\* C13: on every tick with an audio element attached the audio position is
\* compared with the simulation clock and snapped to it when they differ by
\* more than 0.1 s, so after the tick they differ by at most 0.1 s.
C13_AudioInSync ==
  audioElement /\ frames > 0 => Abs(audioTime - currentTime) <= AUDIO_DRIFT

\* ------------------------------------------------------------------------
\* Claims about the effects
\* ------------------------------------------------------------------------
\* setupPostProcessing ran and did not build every pass: the vignette pass,
\* the last one it creates, is missing
ConstructionFailed == loopStarted /\ ~vignettePass

\* C17: when effect construction in setupPostProcessing fails at any point
\* the result is safe mode: the effect chain holds the render pass only,
\* runtime.bloomPass and runtime.vignettePass are both null, and every
\* later frame writes the exposure but no bloom strength and no
\* vignette/grain uniform.
C17_SafeMode ==
  ConstructionFailed =>
    /\ composerPasses = {"render"}
    /\ ~bloomPass
    /\ ~vignettePass
    /\ (frames > 0 => written = {"exposure"})

\* the fade window of the current shot (<<>>: none declared)
CurrentFade ==
  IF currentShot = 0 THEN <<>> ELSE sceneData.shots[currentShot].fx.fade

\* the clamped base exposure of the current shot for the state of the
\* frame that just ran
CurrentBaseExposure ==
  BaseExposure(sceneData.shots[currentShot].fx, tempoState, lastAudioEnergy)

\* C20: for a shot that declares a fade window [fadeStart, fadeEnd] the
\* exposure written to the renderer each frame is the clamped base exposure
\* (within [0.25, 1.8]) before fadeStart, is ramped linearly to zero across
\* the window, and is 0 at and after fadeEnd.
C20_FadeExposure ==
  frames > 0 /\ CurrentFade # <<>> =>
    LET fadeStart == CurrentFade[1]
        fadeEnd   == CurrentFade[2]
    IN  IF currentTime < fadeStart
        THEN exposure = CurrentBaseExposure
               /\ exposure \in EXPOSURE_MIN..EXPOSURE_MAX
        ELSE IF currentTime >= fadeEnd THEN exposure = 0
        ELSE exposure = (CurrentBaseExposure * (fadeEnd - currentTime))
                          \div (fadeEnd - fadeStart)

\* ------------------------------------------------------------------------
\* Claims about the scene loader
\* ------------------------------------------------------------------------
\* C14: loadSceneDataAsync never throws or rejects to its caller: for every
\* outcome of the network request and every state of the inline payload it
\* falls through network, inline, minimal scene and resolves with a
\* normalized Scene.
C14_LoadNeverRejects == loadPc = "done" => loadResult.status = "ok"

\* C15: when the network does not deliver (no response, or a response whose
\* body never finishes) loadSceneDataAsync is not pending beyond the 3 s
\* timeout: the request is aborted and the inline or minimal scene is
\* returned.
C15_LoadWithinTimeout ==
  loadPc \in {"fetch", "body"} /\ loadNet.kind \in {"never", "stall"}
    => loadElapsed <= LOAD_TIMEOUT

\* ------------------------------------------------------------------------
\* Claims about the beat bookkeeping and the applied scene
\* ------------------------------------------------------------------------
\* the indices of the beats at or before time t
BeatsPassed(beats, t) == { i \in 1..Len(beats) : beats[i] <= t }

\* the last action was a frame of the first run or of the replay
AfterReplayFrame ==
  \/ phase = "first" /\ Len(trace) > 0
  \/ phase = "replay" /\ replayPos > 0

\* C21: with a non-empty beat list, after every updateTempoState call
\* beatIndex is the number of beats <= currentTime, lastBeatTime is the
\* greatest beat <= currentTime (0 if none) and nextBeatTime > lastBeatTime,
\* also after forward jumps and after rewinds to any earlier time.
C21_BeatIndexMatchesTime ==
  AfterReplayFrame /\ Len(sceneData.beats) > 0
    => LET passed == BeatsPassed(sceneData.beats, currentTime)
       IN  /\ tempoState.beatIndex = Cardinality(passed)
           /\ tempoState.lastBeatTime =
                (IF passed = {} THEN 0 ELSE sceneData.beats[Cardinality(passed)])
           /\ tempoState.nextBeatTime > tempoState.lastBeatTime

\* C23: an applied Scene is never mutated in place: under frames, BPM
\* adjustments and restarts, runtime.sceneData keeps the value it had when
\* the Scene was applied (no preset swap happens in this specification).
C23_SceneNotMutated == sceneData = normalized

\* C24: regenerateBeats keeps the beats of a scene whose list is not empty:
\* when the BPM control calls it, every in-range beat of the list is still
\* in the list afterwards.
C24_RegenerateKeepsBeats ==
  [][TempoBpmInput /\ Len(sceneData.beats) > 0
       => \A i \in 1..Len(sceneData.beats) :
            sceneData.beats[i] >= 0 /\ sceneData.beats[i] <= Dur
              => \E j \in 1..Len(sceneData'.beats) :
                   sceneData'.beats[j] = sceneData.beats[i]]_vars

\* ------------------------------------------------------------------------
\* Claims about the camera path
\* ------------------------------------------------------------------------
\* C22: when building the curve of a newly selected shot throws, the frame
\* goes on (the exposure is written and the next frame is scheduled) and
\* runtime.cameraCurve and the camera pose keep their previous values.
C22_BuildFailureKeepsPose ==
  [][frames' = frames + 1 /\ currentShot' # currentShot
       /\ BuildThrows(sceneData, currentShot')
       => /\ cameraCurve' = cameraCurve
          /\ cameraPose' = cameraPose
          /\ "exposure" \in written'
          /\ rafPending']_vars

\* a frame has selected the second shot, whose curve cannot be built, with
\* the curve and the pose of the first shot still in place
C22_Witness ==
  /\ currentShot = 2
  /\ BuildThrows(sceneData, currentShot)
  /\ cameraCurve = 1
  /\ cameraPose.shot = 1
  /\ cameraPose.time < currentTime

\* C29: whenever a pose is sampled from a non-null runtime.cameraCurve, the
\* curve is the one built from the points of runtime.currentShot, after any
\* sequence of shot changes, build failures and scene applications.
C29_PoseFromCurrentShot ==
  cameraPose # NoPose => cameraPose.curve = cameraPose.shot

\* ------------------------------------------------------------------------
\* Claims about the preset selector
\* ------------------------------------------------------------------------
\* the runs of the preset handler that have not finished
PendingLoads == { i \in 1..Len(presetLoads) : presetLoads[i].pc # "done" }

\* the step is a step of the preset handler that applies no scene
PendingStep ==
  /\ presetLoads' # presetLoads
  /\ \A i \in 1..Len(presetLoads) : presetLoads'[i].scene = presetLoads[i].scene

C27_LastSelectionWins ==
  /\ Len(presetLoads) = 2
  /\ PendingLoads = {}
  /\ presetLoads[1].scene.status = "ok"
  /\ presetLoads[2].scene.status = "ok"
  => sceneData.shots = presetLoads[2].scene.shots

C28_RecordingImpliesPlaying == isRecording => isPlaying

\* C30: currentTime is never negative, and every frame that leaves
\* isPlaying true leaves currentTime below the duration of the scene.
C30_ClockInRange ==
  /\ [](currentTime >= 0)
  /\ [][frames' = frames + 1 /\ isPlaying' => currentTime' < Dur]_vars

\* playing frames have taken the clock to 29.501 s
C30_Witness ==
  /\ isPlaying
  /\ frames = 2
  /\ currentTime = 29 * SCALE + SCALE \div 2 + SCALE \div 1000

====
